---- MODULE Spec2Model ----
(***************************************************************************)
(* The type-safe validation library of week2/Task8.  The repository holds  *)
(* two implementations with the same API: the single-file src/schema.ts    *)
(* (impl = "schema") and the modular src/index.ts, src/Schema.ts,          *)
(* src/validators/*.ts (impl = "modular").  Both are modelled; the         *)
(* variable impl says which one the program under study imported.          *)
(*                                                                         *)
(* Validators, schema maps and RegExp objects live on a heap (sequences    *)
(* indexed by object identity), because the code shares schema maps and    *)
(* RegExp objects by reference.                                            *)
(*                                                                         *)
(* The sea battle game of week2/Task7 is a second program of the           *)
(* repository; gameState is the GameState object its modules share.        *)
(***************************************************************************)
EXTENDS Integers, Sequences, FiniteSets, TLC

VARIABLES impl, validators, schemas, regexes, last, gameState, enigma

vars == <<impl, validators, schemas, regexes, last, gameState, enigma>>

-----------------------------------------------------------------------------
(* Bounds of the model *)

MaxValidators == 3
MaxLen == 2
MaxNum == 2
\* the side of the board (BOARD_SIZE, 10 in the game)
BoardSize == 3
\* the ships of each side (NUM_SHIPS, 3 in the game)
NumShips == 1
\* the CPU turns of a game
MaxTurns == 3
\* the ships one call of placeShipsRandomly is asked to place
MaxShips == 2
\* the guesses of the player that a game accepts
MaxGuesses == 4

-----------------------------------------------------------------------------
(* JavaScript values.  Each type has its own record shape. *)

Undef == [t |-> "undefined"]
Null == [t |-> "null"]
Bool(b) == [t |-> "boolean", b |-> b]
Num(n) == [t |-> "number", n |-> n]
NaN == [t |-> "number", special |-> "NaN"]
Infinity == [t |-> "number", special |-> "Infinity"]
NegInfinity == [t |-> "number", special |-> "-Infinity"]
\* a string whose characters the program inspects
Str(cs) == [t |-> "string", chars |-> cs]
\* a string the program only passes on (messages)
Text(s) == [t |-> "string", text |-> s]
\* a Date object with a valid time value (ts, in days since the epoch)
DateV(ts) == [t |-> "object", class |-> "Date", ts |-> ts]
InvalidDate == [t |-> "object", class |-> "Date", invalid |-> TRUE]
Arr(items) == [t |-> "object", class |-> "Array", items |-> items]
Obj(fields) == [t |-> "object", class |-> "Object", fields |-> fields]

\* typeof value
TypeOf(v) == IF v = Null THEN "object" ELSE v.t

IsA(v, c) == v.t = "object" /\ v # Null /\ v.class = c

\* value === undefined alone
IsUndefined(v) == v = Undef

\* value === null || value === undefined
IsAbsent(v) == v = Null \/ v = Undef

\* typeof value === 'number' alone
IsNumber(v) == v.t = "number"

\* Number.isFinite(value), for a value of type number
IsFiniteNumber(v) == v.t = "number" /\ "n" \in DOMAIN v

\* JavaScript truthiness of an optional message (undefined or a string)
Truthy(m) == m.t = "string" /\ m # Text("") /\ m # Str(<<>>)

\* message || fallback
OrElse(m, fallback) == IF Truthy(m) THEN m ELSE Text(fallback)

\* obj[key] for the field names of the model: undefined when the object is
\* not a plain object or has no such key
Get(o, k) ==
  IF "fields" \in DOMAIN o /\ k \in DOMAIN o.fields THEN o.fields[k] ELSE Undef

EmptyFields == [k \in {} |-> Undef]

\* o with o[k] = v
Put(o, k, v) == [x \in (DOMAIN o) \cup {k} |-> IF x = k THEN v ELSE o[x]]

-----------------------------------------------------------------------------
(* Dates: the date strings of the tests, their time values in days since   *)
(* the epoch (new Date(string).getTime()), and toISOString().              *)

Jan01 == <<"2", "0", "2", "3", "-", "0", "1", "-", "0", "1">>
Jun15 == <<"2", "0", "2", "3", "-", "0", "6", "-", "1", "5">>
Dec31 == <<"2", "0", "2", "3", "-", "1", "2", "-", "3", "1">>

DateStrings == {Str(Jan01), Str(Jun15), Str(Dec31)}

\* new Date(value) for a string value
ParseDate(v) ==
  IF "chars" \notin DOMAIN v THEN InvalidDate
  ELSE CASE v.chars = Jan01 -> DateV(19358)
         [] v.chars = Jun15 -> DateV(19523)
         [] v.chars = Dec31 -> DateV(19722)
         [] OTHER -> InvalidDate

ToISOString(ts) ==
  CASE ts = 19358 -> "2023-01-01T00:00:00.000Z"
    [] ts = 19523 -> "2023-06-15T00:00:00.000Z"
    [] ts = 19722 -> "2023-12-31T00:00:00.000Z"
    [] OTHER -> "day " \o ToString(ts)

Timestamps == {19358, 19523, 19722}

\* value instanceof Date && !isNaN(value.getTime())
IsValidDate(v) == IsA(v, "Date") /\ "ts" \in DOMAIN v

-----------------------------------------------------------------------------
(* RegExp objects.  A pattern is a literal: it matches a string that       *)
(* contains source.  test() on a global (or sticky) RegExp starts at       *)
(* lastIndex and moves it (ECMAScript RegExpBuiltinExec).                  *)

RegExp(source, global) == [source |-> source, global |-> global, lastIndex |-> 0]

\* source occurs in cs at 0-based index i
OccursAt(source, cs, i) ==
  /\ i + Len(source) <= Len(cs)
  /\ \A j \in 1..Len(source) : cs[i + j] = source[j]

\* the 0-based indices >= from at which source occurs in cs
Occurrences(source, cs, from) ==
  {i \in from..Len(cs) : OccursAt(source, cs, i)}

Min(S) == CHOOSE x \in S : \A y \in S : x <= y

\* pattern.test(value): the answer and the RegExp object afterwards
RegExpTest(re, cs) ==
  LET from == IF re.global THEN re.lastIndex ELSE 0
      occ == IF from > Len(cs) THEN {} ELSE Occurrences(re.source, cs, from)
  IN IF occ = {}
     THEN [matched |-> FALSE,
           re |-> IF re.global THEN [re EXCEPT !.lastIndex = 0] ELSE re]
     ELSE [matched |-> TRUE,
           re |-> IF re.global
                  THEN [re EXCEPT !.lastIndex = Min(occ) + Len(re.source)]
                  ELSE re]

-----------------------------------------------------------------------------
(* Validation results *)

Ok(data) == [success |-> TRUE, data |-> data]
Fail(error) == [success |-> FALSE, error |-> error]
RuleOk == [success |-> TRUE]

-----------------------------------------------------------------------------
(* Validators.  A validator object has the fields of BaseValidator, the    *)
(* fields its class adds, and wrapped: whether optional() gave the object  *)
(* its own validate property, which hides the validate of its class.       *)

NoBound == [none |-> TRUE]
DateBound(date, message) == [date |-> date, message |-> message]

\* new XValidator(): the field initialisers of BaseValidator
NewValidator(kind, itemValidator, schema) ==
  [kind |-> kind, rules |-> <<>>, isOptional |-> FALSE,
   baseErrorMessage |-> Undef, wrapped |-> FALSE,
   minDateVal |-> NoBound, maxDateVal |-> NoBound,
   itemValidator |-> itemValidator, schema |-> schema]

\* a rule closure: the method that made it and the variables it captured
\* (n: the length, number, time value or RegExp object; message)
Rule(r, n, message) == [r |-> r, n |-> n, message |-> message]

Plural(what, n, tail) == what \o ToString(n) \o tail

\* number rules whose bounds are exclusive
RunRuleExclusive(im, rule, v, rs) ==
  LET n == rule.n
      no(default) == [res |-> Fail(OrElse(rule.message, default)), rs |-> rs]
      yes == [res |-> RuleOk, rs |-> rs]
  IN CASE rule.r = "min" ->
            IF v.n <= n THEN no("Number must be at least " \o ToString(n)) ELSE yes
       [] rule.r = "max" ->
            IF v.n >= n THEN no("Number must be at most " \o ToString(n)) ELSE yes
       [] OTHER -> yes

\* string length rules that compare the wrong way round
RunRuleLengthSwapped(im, rule, v, rs) ==
  LET n == rule.n
      no(default) == [res |-> Fail(OrElse(rule.message, default)), rs |-> rs]
      yes == [res |-> RuleOk, rs |-> rs]
  IN CASE rule.r = "minLength" ->
            IF Len(v.chars) > n
            THEN no(Plural("String must be at least ", n, " characters long"))
            ELSE yes
       [] rule.r = "maxLength" ->
            IF Len(v.chars) < n
            THEN no(Plural("String must be at most ", n, " characters long"))
            ELSE yes
       [] OTHER -> yes

\* rule(typedValue): the rule's answer and the RegExp heap afterwards
RunRule(im, rule, v, rs) ==
  LET n == rule.n
      no(default) == [res |-> Fail(OrElse(rule.message, default)), rs |-> rs]
      yes == [res |-> RuleOk, rs |-> rs]
  IN CASE rule.r = "minLength" ->
            IF Len(v.chars) < n
            THEN no(Plural("String must be at least ", n, " characters long"))
            ELSE yes
       [] rule.r = "maxLength" ->
            IF Len(v.chars) > n
            THEN no(Plural("String must be at most ", n, " characters long"))
            ELSE yes
       [] rule.r = "pattern" ->
            LET t == RegExpTest(rs[n], v.chars)
                rs2 == [rs EXCEPT ![n] = t.re]
            IN IF ~t.matched
               THEN [res |-> Fail(OrElse(rule.message,
                                         "String does not match required pattern")),
                     rs |-> rs2]
               ELSE [res |-> RuleOk, rs |-> rs2]
       [] rule.r = "min" ->
            IF v.n < n THEN no("Number must be at least " \o ToString(n)) ELSE yes
       [] rule.r = "max" ->
            IF v.n > n THEN no("Number must be at most " \o ToString(n)) ELSE yes
       [] rule.r = "dateMin" ->
            IF v.ts < n
            THEN no((IF im = "schema" THEN "Date must be after "
                     ELSE "Date must be on or after ") \o ToISOString(n))
            ELSE yes
       [] rule.r = "dateMax" ->
            IF v.ts > n
            THEN no((IF im = "schema" THEN "Date must be before "
                     ELSE "Date must be on or before ") \o ToISOString(n))
            ELSE yes
       [] rule.r = "arrayMinLength" ->
            IF Len(v.items) < n
            THEN no(Plural("Array must contain at least ", n, " items"))
            ELSE yes
       [] rule.r = "arrayMaxLength" ->
            IF Len(v.items) > n
            THEN no(Plural("Array must contain at most ", n, " items"))
            ELSE yes

\* this.validateType(value)
ValidateType(im, v, x) ==
  LET no(default) == Fail(OrElse(v.baseErrorMessage, default))
  IN CASE v.kind = "string" ->
            IF TypeOf(x) # "string" THEN no("Value must be a string") ELSE Ok(x)
       [] v.kind = "number" ->
            IF TypeOf(x) # "number" \/ ~IsFiniteNumber(x)
            THEN no("Value must be a valid number") ELSE Ok(x)
       [] v.kind = "boolean" ->
            IF TypeOf(x) # "boolean" THEN no("Value must be a boolean") ELSE Ok(x)
       [] v.kind = "date" ->
            IF IsValidDate(x) THEN Ok(x)
            ELSE IF TypeOf(x) = "string" /\ IsValidDate(ParseDate(x))
                 THEN Ok(ParseDate(x))
                 ELSE no(IF im = "schema" THEN "Value must be a valid date"
                         ELSE "Value must be a valid Date object or an ISO date string")
       [] v.kind = "array" ->
            IF ~IsA(x, "Array") THEN no("Value must be an array") ELSE Ok(x)
       [] v.kind = "object" ->
            IF TypeOf(x) # "object" \/ x = Null \/ IsA(x, "Array")
            THEN no("Value must be an object") ELSE Ok(x)

RECURSIVE RunRulesKeepData(_, _, _, _, _)
\* a loop over this.rules that leaves the typed value in a failing result
RunRulesKeepData(im, rules, i, typedValue, rs) ==
  IF i > Len(rules) THEN [result |-> Ok(typedValue), rs |-> rs]
  ELSE LET r == RunRule(im, rules[i], typedValue, rs)
       IN IF ~r.res.success
          THEN [result |-> [success |-> FALSE, error |-> r.res.error,
                            data |-> typedValue],
                rs |-> r.rs]
          ELSE RunRulesKeepData(im, rules, i + 1, typedValue, r.rs)

RECURSIVE RunRulesFromLast(_, _, _, _, _)
\* a loop over this.rules that starts from the rule attached last
RunRulesFromLast(im, rules, i, typedValue, rs) ==
  IF i > Len(rules) THEN [result |-> Ok(typedValue), rs |-> rs]
  ELSE LET r == RunRule(im, rules[Len(rules) + 1 - i], typedValue, rs)
       IN IF ~r.res.success
          THEN [result |-> Fail(r.res.error), rs |-> r.rs]
          ELSE RunRulesFromLast(im, rules, i + 1, typedValue, r.rs)

RECURSIVE RunRules(_, _, _, _, _)
\* the loop over this.rules of BaseValidator.validate, from rule i on
RunRules(im, rules, i, typedValue, rs) ==
  IF i > Len(rules) THEN [result |-> Ok(typedValue), rs |-> rs]
  ELSE LET r == RunRule(im, rules[i], typedValue, rs)
       IN IF ~r.res.success
          THEN [result |-> Fail(r.res.error), rs |-> r.rs]
          ELSE RunRules(im, rules, i + 1, typedValue, r.rs)

\* a validate that checks the type only when it has rules to run
BaseValidateUntyped(im, v, x, rs) ==
  LET typeCheckResult == ValidateType(im, v, x)
  IN IF v.rules = <<>> THEN [result |-> Ok(x), rs |-> rs]
     ELSE IF ~typeCheckResult.success
          THEN [result |-> typeCheckResult, rs |-> rs]
          ELSE RunRules(im, v.rules, 1, typeCheckResult.data, rs)

\* BaseValidator.prototype.validate
BaseValidate(im, v, x, rs) ==
  LET typeCheckResult == ValidateType(im, v, x)
  IN IF ~typeCheckResult.success
     THEN [result |-> typeCheckResult, rs |-> rs]
     ELSE RunRules(im, v.rules, 1, typeCheckResult.data, rs)

-----------------------------------------------------------------------------
(* validate on a validator object of the heap vs, with the schema maps ss  *)
(* and the RegExp objects rs: the result and the RegExp objects afterwards *)

RECURSIVE Validate(_, _, _, _, _, _)
RECURSIVE ValidateItems(_, _, _, _, _, _, _)
RECURSIVE ValidateFields(_, _, _, _, _, _, _)
RECURSIVE ValidateFieldsKeepUndefined(_, _, _, _, _, _, _)

\* the loop over the elements of ArrayValidator.validate, from element i on;
\* acc holds validatedItems, errors and the RegExp objects
ValidateItems(im, vs, ss, itemValidator, items, i, acc) ==
  IF i > Len(items) THEN acc
  ELSE LET r == Validate(im, vs, ss, acc.rs, itemValidator, items[i])
       IN ValidateItems(im, vs, ss, itemValidator, items, i + 1,
            IF r.result.success
            THEN [acc EXCEPT !.validated = Append(@, r.result.data), !.rs = r.rs]
            ELSE [acc EXCEPT !.errors = Put(@, ToString(i - 1), r.result.error),
                             !.rs = r.rs])

\* an array validate that returns the array it was given
ArrayValidateReturnsInput(im, vs, ss, rs, v, x) ==
  LET arrayResult == BaseValidate(im, v, x, rs)
  IN IF ~arrayResult.result.success THEN arrayResult
     ELSE LET acc == ValidateItems(im, vs, ss, v.itemValidator,
                       arrayResult.result.data.items, 1,
                       [validated |-> <<>>, errors |-> EmptyFields,
                        rs |-> arrayResult.rs])
          IN IF DOMAIN acc.errors # {}
             THEN [result |-> Fail(Obj(acc.errors)), rs |-> acc.rs]
             ELSE [result |-> Ok(arrayResult.result.data), rs |-> acc.rs]

\* ArrayValidator.prototype.validate
ArrayValidate(im, vs, ss, rs, v, x) ==
  LET arrayResult == BaseValidate(im, v, x, rs)
  IN IF ~arrayResult.result.success THEN arrayResult
     ELSE LET acc == ValidateItems(im, vs, ss, v.itemValidator,
                       arrayResult.result.data.items, 1,
                       [validated |-> <<>>, errors |-> EmptyFields,
                        rs |-> arrayResult.rs])
          IN IF DOMAIN acc.errors # {}
             THEN [result |->
                     Fail(IF im = "schema" THEN Obj(acc.errors)
                          ELSE Obj([k \in {"message", "errors"} |->
                                      IF k = "message"
                                      THEN Text("Array contains invalid items")
                                      ELSE Obj(acc.errors)])),
                   rs |-> acc.rs]
             ELSE [result |-> Ok(Arr(acc.validated)), rs |-> acc.rs]

\* a loop over the keys of this.schema that also stores undefined data
ValidateFieldsKeepUndefined(im, vs, ss, schema, obj, i, acc) ==
  IF i > Len(schema) THEN acc
  ELSE LET key == schema[i].key
           r == Validate(im, vs, ss, acc.rs, schema[i].validator, Get(obj, key))
       IN ValidateFieldsKeepUndefined(im, vs, ss, schema, obj, i + 1,
            IF r.result.success
            THEN [acc EXCEPT !.validated = Put(@, key, r.result.data),
                             !.rs = r.rs]
            ELSE [acc EXCEPT !.errors = Put(@, key, r.result.error), !.rs = r.rs])

\* the loop over the keys of this.schema of ObjectValidator.validate, from
\* entry i on; acc holds validatedObject, errors and the RegExp objects
ValidateFields(im, vs, ss, schema, obj, i, acc) ==
  IF i > Len(schema) THEN acc
  ELSE LET key == schema[i].key
           r == Validate(im, vs, ss, acc.rs, schema[i].validator, Get(obj, key))
       IN ValidateFields(im, vs, ss, schema, obj, i + 1,
            IF r.result.success
            THEN IF r.result.data # Undef
                 THEN [acc EXCEPT !.validated = Put(@, key, r.result.data),
                                  !.rs = r.rs]
                 ELSE [acc EXCEPT !.rs = r.rs]
            ELSE [acc EXCEPT !.errors = Put(@, key, r.result.error), !.rs = r.rs])

\* an object validate that fills the object it was given
ObjectValidateInPlace(im, vs, ss, rs, v, x) ==
  LET objectResult == BaseValidate(im, v, x, rs)
  IN IF ~objectResult.result.success THEN objectResult
     ELSE LET obj == objectResult.result.data
              acc == ValidateFields(im, vs, ss, ss[v.schema], obj, 1,
                       [validated |-> IF "fields" \in DOMAIN obj
                                      THEN obj.fields ELSE EmptyFields,
                        errors |-> EmptyFields, rs |-> objectResult.rs])
          IN IF DOMAIN acc.errors # {}
             THEN [result |-> Fail(Obj(acc.errors)), rs |-> acc.rs]
             ELSE [result |-> Ok(Obj(acc.validated)), rs |-> acc.rs]

\* ObjectValidator.prototype.validate
ObjectValidate(im, vs, ss, rs, v, x) ==
  LET objectResult == BaseValidate(im, v, x, rs)
  IN IF ~objectResult.result.success THEN objectResult
     ELSE LET acc == ValidateFields(im, vs, ss, ss[v.schema],
                       objectResult.result.data, 1,
                       [validated |-> EmptyFields, errors |-> EmptyFields,
                        rs |-> objectResult.rs])
          IN IF DOMAIN acc.errors # {}
             THEN [result |->
                     Fail(IF im = "schema" THEN Obj(acc.errors)
                          ELSE Obj([k \in {"message", "errors"} |->
                                      IF k = "message"
                                      THEN Text("Object validation failed")
                                      ELSE Obj(acc.errors)])),
                   rs |-> acc.rs]
             ELSE [result |-> Ok(Obj(acc.validated)), rs |-> acc.rs]

\* the validate of the validator's class
ProtoValidate(im, vs, ss, rs, id, x) ==
  CASE vs[id].kind = "array" -> ArrayValidate(im, vs, ss, rs, vs[id], x)
    [] vs[id].kind = "object" -> ObjectValidate(im, vs, ss, rs, vs[id], x)
    [] OTHER -> BaseValidate(im, vs[id], x, rs)

\* validator.validate(x): the own property set by optional() if there is
\* one, else the validate of the class
Validate(im, vs, ss, rs, id, x) ==
  IF vs[id].wrapped /\ IsAbsent(x)
  THEN [result |-> Ok(Undef), rs |-> rs]
  ELSE ProtoValidate(im, vs, ss, rs, id, x)

-----------------------------------------------------------------------------
(* Configuration methods.  Each takes the heap of validators and the       *)
(* receiver and gives the heap afterwards; the validator returned is the   *)
(* last one of that heap.  Objects no caller can reach are not kept.       *)

\* new XValidator(this) / new XValidator(this.itemValidator, this) /
\* new XValidator(this.schema, this): the constructors copy every field;
\* an own validate property is not a field they copy
Clone(v) == [v EXCEPT !.wrapped = FALSE]

\* v.addRule(rule): a clone of v with the rule pushed on its own rule list
WithRule(v, rule) == [Clone(v) EXCEPT !.rules = Append(@, rule)]

\* addRule that pushes on a rule list the clone shares with its receiver
AddRuleShared(vs, id, rule) ==
  Append([vs EXCEPT ![id].rules = Append(@, rule)], WithRule(vs[id], rule))

\* this.addRule(rule)
AddRule(vs, id, rule) == Append(vs, WithRule(vs[id], rule))

\* optional() on a clone that starts with an empty rule list
OptionalNoRules(vs, id) ==
  Append(vs, [Clone(vs[id]) EXCEPT !.rules = <<>>, !.isOptional = TRUE,
                                   !.wrapped = TRUE])

\* this.optional()
Optional(vs, id) ==
  Append(vs, [Clone(vs[id]) EXCEPT !.isOptional = TRUE, !.wrapped = TRUE])

\* this.withMessage(message)
WithMessage(vs, id, message) ==
  Append(vs, [Clone(vs[id]) EXCEPT !.baseErrorMessage = message])

\* DateValidator.min(date, message): the heap afterwards and whether the
\* call threw 'Min date cannot be after max date'
DateMin(im, vs, id, date, message) ==
  IF im = "schema"
  THEN LET newValidator == [Clone(vs[id]) EXCEPT
                              !.minDateVal = DateBound(date, message)]
       IN IF newValidator.maxDateVal # NoBound /\ newValidator.maxDateVal.date < date
          THEN [vs |-> vs, threw |-> TRUE]
          ELSE [vs |-> Append(vs, WithRule(newValidator,
                                           Rule("dateMin", date, message))),
                threw |-> FALSE]
  ELSE [vs |-> AddRule(vs, id, Rule("dateMin", date, message)), threw |-> FALSE]

\* DateValidator.max(date, message)
DateMax(im, vs, id, date, message) ==
  IF im = "schema"
  THEN LET newValidator == [Clone(vs[id]) EXCEPT
                              !.maxDateVal = DateBound(date, message)]
       IN IF newValidator.minDateVal # NoBound /\ newValidator.minDateVal.date > date
          THEN [vs |-> vs, threw |-> TRUE]
          ELSE [vs |-> Append(vs, WithRule(newValidator,
                                           Rule("dateMax", date, message))),
                threw |-> FALSE]
  ELSE [vs |-> AddRule(vs, id, Rule("dateMax", date, message)), threw |-> FALSE]

-----------------------------------------------------------------------------
(* Sea battle (week2/Task7).  A location is the two-character string       *)
(* `${row}${col}`; the board sides of the model keep row and col one digit *)
(* each, as BOARD_SIZE = 10 does.                                          *)

\* SHIP_LENGTH
ShipLength == 3

Rows == 0..(BoardSize - 1)

\* `${row}${col}`
LocStr(row, col) == <<ToString(row), ToString(col)>>

\* parseInt of one character of a location
ParseInt(ch) == CHOOSE n \in 0..9 : ToString(n) = ch

\* array.includes(x)
Includes(array, x) == \E i \in 1..Len(array) : array[i] = x

\* new Board(): a grid of '~'
NewBoard == [size |-> BoardSize, grid |-> [cell \in Rows \X Rows |-> "~"]]

\* board.markHit, board.markMiss, board.markShip
Mark(board, row, col, ch) == [board EXCEPT !.grid[<<row, col>>] = ch]

\* board.isValidPosition(row, col)
IsValidPosition(board, row, col) ==
  row >= 0 /\ row < board.size /\ col >= 0 /\ col < board.size

\* board.isCellEmpty(row, col)
IsCellEmpty(board, row, col) == board.grid[<<row, col>>] = "~"

\* new Ship(locations)
NewShip(locations) ==
  [locations |-> locations, hits |-> [i \in 1..Len(locations) |-> ""]]

\* ship.isHit(location)
IsHit(ship, location) == Includes(ship.locations, location)

\* ship.hit(location): the ship afterwards
Hit(ship, location) ==
  LET at == {i \in 1..Len(ship.locations) : ship.locations[i] = location}
  IN IF at = {} THEN ship
     ELSE [ship EXCEPT !.hits[Min(at)] = "hit"]

\* a ship that counts as sunk from its first hit on
IsSunkOnFirstHit(ship) == \E i \in 1..Len(ship.hits) : ship.hits[i] = "hit"

\* ship.isSunk()
IsSunk(ship) == \A i \in 1..Len(ship.hits) : ship.hits[i] = "hit"

\* a guess inside the board, whether new or not
IsValidGuess(row, col, guessList) ==
  ~(row < 0 \/ row >= BoardSize \/ col < 0 \/ col >= BoardSize)

\* isValidAndNewGuess(row, col, guessList)
IsValidAndNewGuess(row, col, guessList) ==
  IF row < 0 \/ row >= BoardSize \/ col < 0 \/ col >= BoardSize THEN FALSE
  ELSE ~Includes(guessList, LocStr(row, col))

\* GameState.reset()
Reset ==
  [playerShips |-> <<>>, cpuShips |-> <<>>,
   playerNumShips |-> NumShips, cpuNumShips |-> NumShips,
   guesses |-> <<>>, cpuGuesses |-> <<>>,
   cpuMode |-> "hunt", cpuTargetQueue |-> <<>>,
   opponentBoard |-> NewBoard, playerBoard |-> NewBoard]

\* the cells of a ship of placeShipsRandomly, bow first
ShipCells(orientation, startRow, startCol) ==
  [i \in 1..ShipLength |->
     IF orientation = "horizontal" THEN <<startRow, startCol + i - 1>>
     ELSE <<startRow + i - 1, startCol>>]

\* the orientations and starts Math.random can give
Starts ==
  {<<"horizontal", r, c>> : r \in Rows, c \in 0..(BoardSize - ShipLength)}
    \cup {<<"vertical", r, c>> : r \in 0..(BoardSize - ShipLength), c \in Rows}

\* a collision check that looks at the board range alone
CollisionOffBoard(targetBoard, cells) ==
  \E i \in 1..Len(cells) :
    ~IsValidPosition(targetBoard, cells[i][1], cells[i][2])

\* the collision check of placeShipsRandomly
Collision(targetBoard, cells) ==
  \E i \in 1..Len(cells) :
    \/ ~IsValidPosition(targetBoard, cells[i][1], cells[i][2])
    \/ ~IsCellEmpty(targetBoard, cells[i][1], cells[i][2])

RECURSIVE MarkShip(_, _, _)
\* targetBoard.markShip on the cells from cell i on
MarkShip(targetBoard, cells, i) ==
  IF i > Len(cells) THEN targetBoard
  ELSE MarkShip(Mark(targetBoard, cells[i][1], cells[i][2], "S"), cells, i + 1)

RECURSIVE PlaceShips(_, _, _)
\* the while loop of placeShipsRandomly: the boards and ship arrays it can
\* end with, toPlace ships being still to place; a draw that collides
\* changes nothing and is drawn again
PlaceShips(targetBoard, shipsArray, toPlace) ==
  IF toPlace = 0 THEN {[board |-> targetBoard, ships |-> shipsArray]}
  ELSE UNION
         {LET cells == ShipCells(st[1], st[2], st[3])
          IN IF Collision(targetBoard, cells) THEN {}
             ELSE PlaceShips(MarkShip(targetBoard, cells, 1),
                    Append(shipsArray,
                      NewShip([i \in 1..ShipLength |->
                                 LocStr(cells[i][1], cells[i][2])])),
                    toPlace - 1)
          : st \in Starts}

RECURSIVE Unmark(_, _, _)
\* the grid without the marks of the ships from ship i on
Unmark(targetBoard, shipsArray, i) ==
  IF i > Len(shipsArray) THEN targetBoard
  ELSE LET locs == shipsArray[i].locations
           cells == {<<ParseInt(locs[j][1]), ParseInt(locs[j][2])>> :
                       j \in 1..Len(locs)}
       IN Unmark([targetBoard EXCEPT !.grid =
                    [cell \in DOMAIN @ |-> IF cell \in cells THEN "~" ELSE @[cell]]],
                 shipsArray, i + 1)

\* gameLogic.placeShipsRandomly(targetBoard, shipsArray, numberOfShips):
\* the ships of a board that is not the player's are unmarked at the end
PlaceShipsRandomly(targetBoard, shipsArray, numberOfShips, isPlayerBoard) ==
  {IF isPlayerBoard THEN p
   ELSE [p EXCEPT !.board = Unmark(p.board, p.ships, 1)]
   : p \in PlaceShips(targetBoard, shipsArray, numberOfShips)}

\* the neighbours of a hit that the CPU queues, in the order of the code
Adjacent(guessRow, guessCol) ==
  <<[r |-> guessRow - 1, c |-> guessCol], [r |-> guessRow + 1, c |-> guessCol],
    [r |-> guessRow, c |-> guessCol - 1], [r |-> guessRow, c |-> guessCol + 1]>>

RECURSIVE PushAdjacentGuessed(_, _, _, _)
\* a loop over adjacent that queues a neighbour whether guessed or not
PushAdjacentGuessed(queue, adjacent, i, cpuGuesses) ==
  IF i > Len(adjacent) THEN queue
  ELSE LET adj == adjacent[i]
           adjStr == LocStr(adj.r, adj.c)
       IN PushAdjacentGuessed(
            IF IsValidGuess(adj.r, adj.c, cpuGuesses)
               /\ ~Includes(queue, adjStr)
            THEN Append(queue, adjStr) ELSE queue,
            adjacent, i + 1, cpuGuesses)

RECURSIVE PushAdjacent(_, _, _, _)
\* the loop over adjacent of takeTurn, from neighbour i on: the target queue
\* afterwards
PushAdjacent(queue, adjacent, i, cpuGuesses) ==
  IF i > Len(adjacent) THEN queue
  ELSE LET adj == adjacent[i]
           adjStr == LocStr(adj.r, adj.c)
       IN PushAdjacent(
            IF IsValidAndNewGuess(adj.r, adj.c, cpuGuesses)
               /\ ~Includes(queue, adjStr)
            THEN Append(queue, adjStr) ELSE queue,
            adjacent, i + 1, cpuGuesses)

\* takeTurn from madeValidGuess = true on: the guess is recorded and
\* resolved against the player's ships
Fire(gs, guessRow, guessCol, guessStr) ==
  LET pushed == [gs EXCEPT !.cpuGuesses = Append(@, guessStr)]
      struck == {i \in 1..Len(gs.playerShips) : IsHit(gs.playerShips[i], guessStr)}
  IN IF struck # {}
     THEN LET i == Min(struck)
              ship == Hit(gs.playerShips[i], guessStr)
              marked == [pushed EXCEPT
                           !.playerShips[i] = ship,
                           !.playerBoard = Mark(@, guessRow, guessCol, "X")]
          IN IF IsSunk(ship)
             THEN [marked EXCEPT !.playerNumShips = @ - 1,
                                 !.cpuMode = "hunt",
                                 !.cpuTargetQueue = <<>>]
             ELSE [marked EXCEPT
                     !.cpuMode = "target",
                     !.cpuTargetQueue =
                        PushAdjacent(@, Adjacent(guessRow, guessCol), 1,
                                     marked.cpuGuesses)]
     ELSE LET missed == [pushed EXCEPT
                           !.playerBoard = Mark(@, guessRow, guessCol, "O")]
          IN IF missed.cpuMode = "target" /\ Len(missed.cpuTargetQueue) = 0
             THEN [missed EXCEPT !.cpuMode = "hunt"]
             ELSE missed

RECURSIVE TakeTurn(_)
\* cpuPlayer.takeTurn(): the game states the while loop can end with; a
\* draw that is not a valid new guess changes nothing and is drawn again
TakeTurn(gs) ==
  IF gs.cpuMode = "target" /\ Len(gs.cpuTargetQueue) > 0
  THEN LET guessStr == Head(gs.cpuTargetQueue)
           shifted == [gs EXCEPT !.cpuTargetQueue = Tail(@)]
       IN IF Includes(gs.cpuGuesses, guessStr)
          THEN TakeTurn(IF Len(shifted.cpuTargetQueue) = 0
                        THEN [shifted EXCEPT !.cpuMode = "hunt"]
                        ELSE shifted)
          ELSE {Fire(shifted, ParseInt(guessStr[1]), ParseInt(guessStr[2]),
                     guessStr)}
  ELSE LET hunting == [gs EXCEPT !.cpuMode = "hunt"]
       IN {Fire(hunting, guessRow, guessCol, LocStr(guessRow, guessCol)) :
             <<guessRow, guessCol>> \in
               {cell \in Rows \X Rows :
                  IsValidAndNewGuess(cell[1], cell[2], gs.cpuGuesses)}}

\* isNaN(parseInt(ch)) of one character of a guess
IsNaNChar(ch) == \A n \in 0..9 : ToString(n) # ch

\* ship.isAlreadyHit(location)
IsAlreadyHit(ship, location) ==
  LET at == {i \in 1..Len(ship.locations) : ship.locations[i] = location}
  IN at # {} /\ ship.hits[Min(at)] = "hit"

\* the checks of processPlayerGuess without the look into guesses
RejectsRepeated(gs, guess) ==
  \/ guess = Null
  \/ Len(guess.chars) # 2
  \/ IsNaNChar(guess.chars[1])
  \/ IsNaNChar(guess.chars[2])
  \/ ~IsValidPosition(gs.opponentBoard, ParseInt(guess.chars[1]),
                      ParseInt(guess.chars[2]))

\* the checks of processPlayerGuess that end it with false
Rejects(gs, guess) ==
  \/ guess = Null
  \/ Len(guess.chars) # 2
  \/ IsNaNChar(guess.chars[1])
  \/ IsNaNChar(guess.chars[2])
  \/ ParseInt(guess.chars[1]) < 0
  \/ ParseInt(guess.chars[1]) >= BoardSize
  \/ ParseInt(guess.chars[2]) < 0
  \/ ParseInt(guess.chars[2]) >= BoardSize
  \/ Includes(gs.guesses, guess.chars)

\* the loop of processPlayerGuess over cpuShips and the miss after it: the
\* first ship that holds the guess ends the loop
Strike(gs, row, col, formattedGuess) ==
  LET struck == {i \in 1..Len(gs.cpuShips) :
                   IsHit(gs.cpuShips[i], formattedGuess)}
  IN IF struck = {}
     THEN [gs EXCEPT !.opponentBoard = Mark(@, row, col, "O")]
     ELSE LET i == Min(struck)
              ship == Hit(gs.cpuShips[i], formattedGuess)
              marked == [gs EXCEPT !.cpuShips[i] = ship,
                                   !.opponentBoard = Mark(@, row, col, "X")]
          IN IF IsAlreadyHit(gs.cpuShips[i], formattedGuess) THEN gs
             ELSE IF IsSunk(ship)
                  THEN [marked EXCEPT !.cpuNumShips = @ - 1]
                  ELSE marked

\* gameLogic.processPlayerGuess(guess): the game state afterwards and the
\* boolean it returns
ProcessPlayerGuess(gs, guess) ==
  IF Rejects(gs, guess) THEN [gs |-> gs, out |-> FALSE]
  ELSE [gs |-> Strike([gs EXCEPT !.guesses = Append(@, guess.chars)],
                      ParseInt(guess.chars[1]), ParseInt(guess.chars[2]),
                      guess.chars),
        out |-> TRUE]

-----------------------------------------------------------------------------
(* The Enigma machine (week2/Task6).  A text is a sequence of characters;  *)
(* an index of the code is one less than the index of the model.           *)

alphabet ==
  <<"A", "B", "C", "D", "E", "F", "G", "H", "I", "J", "K", "L", "M",
    "N", "O", "P", "Q", "R", "S", "T", "U", "V", "W", "X", "Y", "Z">>

\* the characters toUpperCase turns into those of alphabet
lowercase ==
  <<"a", "b", "c", "d", "e", "f", "g", "h", "i", "j", "k", "l", "m",
    "n", "o", "p", "q", "r", "s", "t", "u", "v", "w", "x", "y", "z">>

\* mod(n, m)
Mod(n, m) == ((n % m) + m) % m

\* string.indexOf(c)
IndexOf(string, c) ==
  LET at == {i \in 1..Len(string) : string[i] = c}
  IN IF at = {} THEN -1 ELSE Min(at) - 1

\* string[idx]
CharAt(string, idx) == string[idx + 1]

ROTORS ==
  <<[wiring |-> <<"E", "K", "M", "F", "L", "G", "D", "Q", "V", "Z", "N", "T",
                  "O", "W", "Y", "H", "X", "U", "S", "P", "A", "I", "B", "R",
                  "C", "J">>,
     notch |-> "Q"],
    [wiring |-> <<"A", "J", "D", "K", "S", "I", "R", "U", "X", "B", "L", "H",
                  "W", "T", "M", "C", "Q", "G", "Z", "N", "P", "Y", "F", "V",
                  "O", "E">>,
     notch |-> "E"],
    [wiring |-> <<"B", "D", "F", "H", "J", "L", "C", "P", "R", "T", "X", "V",
                  "Z", "N", "Y", "E", "I", "W", "G", "A", "K", "M", "U", "S",
                  "Q", "O">>,
     notch |-> "V"]>>

REFLECTOR ==
  <<"Y", "R", "U", "H", "Q", "S", "L", "D", "P", "X", "N", "G", "O",
    "K", "M", "I", "E", "B", "F", "Z", "C", "W", "V", "J", "A", "T">>

RECURSIVE PlugboardSwapFrom(_, _, _)
\* the loop of plugboardSwap from pair i on
PlugboardSwapFrom(c, pairs, i) ==
  IF i > Len(pairs) THEN c
  ELSE IF c = pairs[i][1] THEN pairs[i][2]
  ELSE IF c = pairs[i][2] THEN pairs[i][1]
  ELSE PlugboardSwapFrom(c, pairs, i + 1)

\* plugboardSwap(c, pairs)
PlugboardSwap(c, pairs) == PlugboardSwapFrom(c, pairs, 1)

\* new Rotor(wiring, notch, ringSetting, position)
NewRotor(wiring, notch, ringSetting, position) ==
  [wiring |-> wiring, notch |-> notch, ringSetting |-> ringSetting,
   position |-> position]

\* rotor.step(): the rotor afterwards
Step(rotor) == [rotor EXCEPT !.position = Mod(@ + 1, 26)]

\* rotor.atNotch()
AtNotch(rotor) == CharAt(alphabet, rotor.position) = rotor.notch

\* rotor.forward(c)
Forward(rotor, c) ==
  CharAt(rotor.wiring,
         Mod(IndexOf(alphabet, c) + rotor.position - rotor.ringSetting, 26))

\* rotor.backward(c)
Backward(rotor, c) ==
  CharAt(alphabet,
         Mod(IndexOf(rotor.wiring, c) - rotor.position + rotor.ringSetting, 26))

\* new Enigma(rotorIDs, rotorPositions, ringSettings, plugboardPairs);
\* rotorIDs are indices of the code
NewEnigma(rotorIDs, rotorPositions, ringSettings, plugboardPairs) ==
  [rotors |-> [i \in 1..Len(rotorIDs) |->
                 NewRotor(ROTORS[rotorIDs[i] + 1].wiring,
                          ROTORS[rotorIDs[i] + 1].notch,
                          ringSettings[i], rotorPositions[i])],
   plugboardPairs |-> plugboardPairs]

\* enigma.stepRotors(): the rotors afterwards
StepRotors(rotors) ==
  LET rightAtNotch == AtNotch(rotors[3])
      middleAtNotch == AtNotch(rotors[2])
      stepped == IF middleAtNotch
                 THEN [rotors EXCEPT ![1] = Step(@), ![2] = Step(@)]
                 ELSE IF rightAtNotch THEN [rotors EXCEPT ![2] = Step(@)]
                 ELSE rotors
  IN [stepped EXCEPT ![3] = Step(@)]

\* enigma.encryptChar(c): the machine afterwards and the character returned
EncryptChar(e, c) ==
  IF IndexOf(alphabet, c) = -1 THEN [enigma |-> e, c |-> c]
  ELSE LET rotors == StepRotors(e.rotors)
           c1 == PlugboardSwap(c, e.plugboardPairs)
           c2 == Forward(rotors[1], Forward(rotors[2], Forward(rotors[3], c1)))
           c3 == CharAt(REFLECTOR, IndexOf(alphabet, c2))
           c4 == Backward(rotors[3], Backward(rotors[2], Backward(rotors[1], c3)))
       IN [enigma |-> [e EXCEPT !.rotors = rotors],
           c |-> PlugboardSwap(c4, e.plugboardPairs)]

\* toUpperCase of one character
ToUpperCase(c) ==
  IF IndexOf(lowercase, c) = -1 THEN c
  ELSE CharAt(alphabet, IndexOf(lowercase, c))

RECURSIVE ProcessFrom(_, _, _, _)
\* the map of process over the characters from character i on
ProcessFrom(e, text, i, out) ==
  IF i > Len(text) THEN out
  ELSE LET r == EncryptChar(e, ToUpperCase(text[i]))
       IN ProcessFrom(r.enigma, text, i + 1, Append(out, r.c))

\* enigma.process(text) of a machine just built
Process(e, text) == ProcessFrom(e, text, 1, <<>>)

\* no machine is set up
NoEnigma == <<>>

-----------------------------------------------------------------------------
(* The program: a caller that builds validators and validates values.      *)
(* last is the call the caller made last and what it returned.             *)

\* op(arg) on the validator recv returned the validator out, or threw
\* (arg is kept for the date bounds only, else 0; of a validate call only
\* op is kept)
Call(op, recv, arg, out, threw) ==
  [op |-> op, recv |-> recv, arg |-> arg, out |-> out, threw |-> threw]

Ids == 1..Len(validators)

Init ==
  /\ impl \in {"schema", "modular"}
  /\ validators = <<>>
  /\ schemas = <<>>
  /\ regexes = <<>>
  /\ last = Call("start", 0, 0, 0, FALSE)
  /\ gameState = Reset
  /\ enigma = NoEnigma

\* what a configuration call or a factory leaves behind
Built(op, recv, vs) ==
  /\ validators' = vs
  /\ last' = Call(op, recv, 0, Len(vs), FALSE)
  /\ UNCHANGED <<impl, schemas, regexes, gameState, enigma>>

\* Schema.string(), Schema.number(), Schema.boolean(), Schema.date()
SchemaLeaf(kinds) ==
  \E kind \in kinds :
    /\ Len(validators) < MaxValidators
    /\ Built(kind, 0, Append(validators, NewValidator(kind, 0, 0)))

\* Schema.array(itemValidator)
SchemaArray ==
  \E item \in Ids :
    /\ Len(validators) < MaxValidators
    /\ Built("array", 0, Append(validators, NewValidator("array", item, 0)))

\* the schema maps a caller writes: the keys of a sequence of keys, each
\* mapped to a validator
RECURSIVE SchemaMaps(_, _)
SchemaMaps(keys, ids) ==
  IF keys = <<>> THEN {<<>>}
  ELSE LET rest == SchemaMaps(Tail(keys), ids)
       IN rest \cup
          {<<[key |-> Head(keys), validator |-> id]>> \o m : id \in ids, m \in rest}

\* Schema.object(schema) on a new object literal
SchemaObject(keys) ==
  \E schema \in SchemaMaps(keys, Ids) :
    /\ Len(validators) < MaxValidators
    /\ validators' = Append(validators,
                            NewValidator("object", 0, Len(schemas) + 1))
    /\ schemas' = Append(schemas, schema)
    /\ last' = Call("object", 0, 0, Len(validators) + 1, FALSE)
    /\ UNCHANGED <<impl, regexes, gameState, enigma>>

OfKind(kind) == {id \in Ids : validators[id].kind = kind}

\* v.minLength(length, message) on a string validator
MinLength(lengths, messages) ==
  \E id \in OfKind("string"), n \in lengths, m \in messages :
    /\ Len(validators) < MaxValidators
    /\ Built("minLength", id, AddRule(validators, id, Rule("minLength", n, m)))

\* v.maxLength(length, message) on a string validator
MaxLength(lengths, messages) ==
  \E id \in OfKind("string"), n \in lengths, m \in messages :
    /\ Len(validators) < MaxValidators
    /\ Built("maxLength", id, AddRule(validators, id, Rule("maxLength", n, m)))

\* v.pattern(/source/, message) or v.pattern(/source/g, message) on a string
\* validator: the RegExp literal makes a new RegExp object
Pattern(sources, messages) ==
  \E id \in OfKind("string"), source \in sources, global \in BOOLEAN,
     m \in messages :
    /\ Len(validators) < MaxValidators
    /\ regexes' = Append(regexes, RegExp(source, global))
    /\ validators' = AddRule(validators, id,
                              Rule("pattern", Len(regexes) + 1, m))
    /\ last' = Call("pattern", id, 0, Len(validators) + 1, FALSE)
    /\ UNCHANGED <<impl, schemas, gameState, enigma>>

\* v.min(value, message) on a number validator
NumberMin(values, messages) ==
  \E id \in OfKind("number"), n \in values, m \in messages :
    /\ Len(validators) < MaxValidators
    /\ Built("min", id, AddRule(validators, id, Rule("min", n, m)))

\* v.max(value, message) on a number validator
NumberMax(values, messages) ==
  \E id \in OfKind("number"), n \in values, m \in messages :
    /\ Len(validators) < MaxValidators
    /\ Built("max", id, AddRule(validators, id, Rule("max", n, m)))

\* v.minLength(length, message) on an array validator
ArrayMinLength(lengths, messages) ==
  \E id \in OfKind("array"), n \in lengths, m \in messages :
    /\ Len(validators) < MaxValidators
    /\ Built("minLength", id, AddRule(validators, id, Rule("arrayMinLength", n, m)))

\* v.maxLength(length, message) on an array validator
ArrayMaxLength(lengths, messages) ==
  \E id \in OfKind("array"), n \in lengths, m \in messages :
    /\ Len(validators) < MaxValidators
    /\ Built("maxLength", id, AddRule(validators, id, Rule("arrayMaxLength", n, m)))

\* what a call of min or max on a date validator leaves behind
DateBuilt(op, id, date, r) ==
  /\ validators' = r.vs
  /\ last' = Call(op, id, date, IF r.threw THEN 0 ELSE Len(r.vs), r.threw)
  /\ UNCHANGED <<impl, schemas, regexes, gameState, enigma>>

\* v.min(date, message) on a date validator
DateMinCall(dates, messages) ==
  \E id \in OfKind("date"), d \in dates, m \in messages :
    /\ Len(validators) < MaxValidators
    /\ DateBuilt("min", id, d, DateMin(impl, validators, id, d, m))

\* v.max(date, message) on a date validator
DateMaxCall(dates, messages) ==
  \E id \in OfKind("date"), d \in dates, m \in messages :
    /\ Len(validators) < MaxValidators
    /\ DateBuilt("max", id, d, DateMax(impl, validators, id, d, m))

\* v.optional()
OptionalCall ==
  \E id \in Ids :
    /\ Len(validators) < MaxValidators
    /\ Built("optional", id, Optional(validators, id))

\* v.withMessage(message)
WithMessageCall(messages) ==
  \E id \in Ids, m \in messages :
    /\ Len(validators) < MaxValidators
    /\ Built("withMessage", id, WithMessage(validators, id, m))

\* v.validate(x): the result goes to the caller; what stays in the program
\* is the state of the RegExp objects the rules used
ValidateCall(inputs) ==
  \E id \in Ids, x \in inputs :
    LET r == Validate(impl, validators, schemas, regexes, id, x)
    IN /\ regexes' = r.rs
       /\ last' = Call("validate", 0, 0, 0, FALSE)
       /\ UNCHANGED <<impl, validators, schemas, gameState, enigma>>

-----------------------------------------------------------------------------
(* The arguments the caller draws from *)

\* the string of n letters a
RECURSIVE Letters(_)
Letters(n) == IF n = 0 THEN <<>> ELSE <<"a">> \o Letters(n - 1)

Lengths == 1..MaxLen
Numbers == 1..MaxNum
RuleMessages == {Undef, Text("custom rule message")}
TopMessages == {Text(""), Text("custom message")}

Strings == {Str(Letters(n)) : n \in 0..(MaxLen + 1)} \cup {Str(<<"b">>)}

LeafInputs ==
  {Undef, Null, Bool(TRUE), NaN, Infinity, InvalidDate}
    \cup {Num(n) : n \in -1..(MaxNum + 1)}
    \cup Strings \cup DateStrings
    \cup {DateV(ts) : ts \in Timestamps}

\* the inputs of the validate calls that are steps of the program
CallInputs ==
  {Undef, Num(1), DateV(19358), Str(<<"a">>), Str(<<"a", "a">>), Str(<<"b">>)}

\* the sequences over S of length at most n
RECURSIVE SeqsUpTo(_, _)
SeqsUpTo(S, n) ==
  IF n = 0 THEN {<<>>}
  ELSE LET shorter == SeqsUpTo(S, n - 1)
       IN shorter \cup {Append(q, e) : q \in shorter, e \in S}

\* the plain objects with keys among keys and values in S
RECURSIVE Records(_, _)
Records(keys, S) ==
  IF keys = <<>> THEN {EmptyFields}
  ELSE LET rest == Records(Tail(keys), S)
       IN rest \cup {Put(f, Head(keys), e) : f \in rest, e \in S}

Elements == {Null, Num(0), Num(MaxNum), Str(<<"a">>), Str(Jan01)}
FieldNames == <<"name", "age">>

TreeInputs ==
  {Undef, Null, Bool(TRUE), Num(0), Num(1), Str(<<"a">>), Str(<<"a", "a">>),
   Str(Jan01), DateV(19358)}
    \cup {Arr(q) : q \in SeqsUpTo(Elements, MaxLen)}
    \cup {Obj(f) : f \in Records(FieldNames, Elements)}
    \cup {Arr(<<Arr(<<Num(0), Str(<<"a">>)>>)>>),
          Arr(<<Obj(Put(EmptyFields, "name", Num(0)))>>),
          Obj(Put(EmptyFields, "name", Arr(<<Num(0), Str(<<"a">>)>>))),
          Obj(Put(EmptyFields, "name", Obj(Put(EmptyFields, "age", Num(0))))),
          Obj(Put(EmptyFields, "age", Undef))}

\* the inputs of the validate calls that are steps of the tree program
TreeCallInputs ==
  {Undef, Str(<<"a">>), Arr(<<Num(0), Str(<<"a">>)>>),
   Obj(Put(EmptyFields, "name", Num(0)))}

\* inputs of each type, and arrays and objects with and without a failing
\* element or field
TypeInputs ==
  {Undef, Null, Bool(TRUE), Num(0), NaN, Str(<<"a">>), Str(Jan01),
   DateV(19358), InvalidDate, Arr(<<>>), Arr(<<Num(0)>>),
   Arr(<<Str(<<"a">>)>>), Obj(EmptyFields),
   Obj(Put(EmptyFields, "name", Num(0)))}

-----------------------------------------------------------------------------
(* Leaf validators with every configuration method *)

Next ==
  \/ SchemaLeaf({"string", "number", "boolean", "date"})
  \/ MinLength(Lengths, RuleMessages)
  \/ MaxLength(Lengths, {Undef})
  \/ Pattern({<<"a">>}, {Undef})
  \/ NumberMin(Numbers, {Undef})
  \/ NumberMax(Numbers, RuleMessages)
  \/ DateMinCall(Timestamps, {Undef})
  \/ DateMaxCall(Timestamps, {Undef})
  \/ OptionalCall
  \/ WithMessageCall(TopMessages)
  \/ ValidateCall(CallInputs)

Spec == Init /\ [][Next]_vars

(* Validator trees: arrays and objects over leaf validators *)

NextTree ==
  \/ SchemaLeaf({"string", "number", "boolean", "date"})
  \/ SchemaArray
  \/ SchemaObject(FieldNames)
  \/ MinLength({2}, {Undef})
  \/ NumberMin({1}, {Undef})
  \/ ArrayMinLength({1}, {Undef, Text("custom rule message")})
  \/ ArrayMaxLength({1}, {Undef})
  \/ OptionalCall
  \/ WithMessageCall({Text("custom message")})
  \/ ValidateCall(TreeCallInputs)

SpecTree == Init /\ [][NextTree]_vars

(* Validator trees without rules on the leaves: what validate does with an *)
(* input of the wrong type, with the elements of an array and with the     *)
(* fields of an object                                                     *)

NextNest ==
  \/ SchemaLeaf({"string", "number", "boolean", "date"})
  \/ SchemaArray
  \/ SchemaObject(FieldNames)
  \/ ArrayMinLength({1}, {Undef})
  \/ OptionalCall
  \/ WithMessageCall({Text("custom message")})
  \/ ValidateCall({Undef, Arr(<<Str(Jan01)>>),
                   Obj(Put(EmptyFields, "name", Num(0)))})

SpecNest == Init /\ [][NextNest]_vars

(* Object validators whose schema map the caller changes afterwards *)

\* schema[key] = validator, or delete schema[key], on a map object that was
\* passed to Schema.object
MutateSchema(keys) ==
  \E sid \in 1..Len(schemas), i \in 1..Len(keys), id \in {0} \cup Ids :
    LET old == schemas[sid]
        key == keys[i]
        at == {j \in 1..Len(old) : old[j].key = key}
        entry == [key |-> key, validator |-> id]
        without == SelectSeq(old, LAMBDA e : e.key # key)
        new == IF id = 0 THEN without
               ELSE IF at = {} THEN Append(old, entry)
               ELSE [old EXCEPT ![CHOOSE j \in at : TRUE] = entry]
    IN /\ new # old
       /\ schemas' = [schemas EXCEPT ![sid] = new]
       /\ last' = Call("mutate", 0, 0, 0, FALSE)
       /\ UNCHANGED <<impl, validators, regexes, gameState, enigma>>

MapInputs ==
  {Undef, Str(<<"a">>)} \cup {Obj(f) : f \in Records(FieldNames, {Num(1), Str(<<"a">>)})}

NextMap ==
  \/ SchemaLeaf({"string"})
  \/ SchemaObject(FieldNames)
  \/ OptionalCall
  \/ WithMessageCall({Text("custom message")})
  \/ MutateSchema(<<"name">>)
  \/ ValidateCall(MapInputs)

SpecMap == Init /\ [][NextMap]_vars

(* The sea battle game: the ships of the player are placed, then the CPU   *)
(* takes turns.                                                            *)

\* the validation library plays no part in the game
InitSea ==
  /\ impl = "schema"
  /\ validators = <<>>
  /\ schemas = <<>>
  /\ regexes = <<>>
  /\ last = Call("start", 0, 0, 0, FALSE)
  /\ gameState = Reset
  /\ enigma = NoEnigma

\* placeShipsRandomly(gameState.playerBoard, gameState.playerShips,
\* gameState.playerNumShips)
PlacePlayerShips ==
  /\ gameState.playerShips = <<>>
  /\ \E p \in PlaceShipsRandomly(gameState.playerBoard, gameState.playerShips,
                                 gameState.playerNumShips, TRUE) :
       gameState' = [gameState EXCEPT !.playerBoard = p.board,
                                      !.playerShips = p.ships]
  /\ last' = Call("placeShipsRandomly", 0, 0, 0, FALSE)
  /\ UNCHANGED <<impl, validators, schemas, regexes, enigma>>

\* cpuTurn()
CpuTurn ==
  /\ gameState.playerShips # <<>>
  /\ Len(gameState.cpuGuesses) < MaxTurns
  /\ gameState' \in TakeTurn(gameState)
  /\ last' = Call("cpuTurn", 0, 0, 0, FALSE)
  /\ UNCHANGED <<impl, validators, schemas, regexes, enigma>>

NextSea ==
  \/ PlacePlayerShips
  \/ CpuTurn

SpecSea == InitSea /\ [][NextSea]_vars

(* Placing ships: placeShipsRandomly on the player's board for the numbers *)
(* of ships a caller can ask for, and on the other board for the ships of  *)
(* the game.                                                               *)

\* placeShipsRandomly(gameState.playerBoard, gameState.playerShips, n) or
\* placeShipsRandomly(gameState.opponentBoard, gameState.cpuShips, n), on a
\* board that has no ships yet
PlaceOn(isPlayerBoard, numbers) ==
  \E n \in numbers :
    LET targetBoard == IF isPlayerBoard THEN gameState.playerBoard
                       ELSE gameState.opponentBoard
        shipsArray == IF isPlayerBoard THEN gameState.playerShips
                      ELSE gameState.cpuShips
    IN /\ shipsArray = <<>>
       /\ \E p \in PlaceShipsRandomly(targetBoard, shipsArray, n, isPlayerBoard) :
            gameState' = IF isPlayerBoard
                         THEN [gameState EXCEPT !.playerBoard = p.board,
                                                !.playerShips = p.ships]
                         ELSE [gameState EXCEPT !.opponentBoard = p.board,
                                                !.cpuShips = p.ships]
       /\ last' = Call("placeShipsRandomly", 0, n, 0, FALSE)
       /\ UNCHANGED <<impl, validators, schemas, regexes, enigma>>

NextPlace ==
  \/ PlaceOn(TRUE, 1..MaxShips)
  \/ PlaceOn(FALSE, {NumShips})

SpecPlace == InitSea /\ [][NextPlace]_vars

(* The guesses of the player: the ships of the CPU are placed, then the   *)
(* player guesses.                                                         *)

\* the game after reset, for each number of ships a side can have
InitGuess ==
  /\ impl = "schema"
  /\ validators = <<>>
  /\ schemas = <<>>
  /\ regexes = <<>>
  /\ last = Call("start", 0, 0, 0, FALSE)
  /\ \E n \in 1..MaxShips :
       gameState = [Reset EXCEPT !.playerNumShips = n, !.cpuNumShips = n]
  /\ enigma = NoEnigma

\* what the player types: strings of the tests that address no cell, the
\* locations of the first row that a ship can lie in, and one below it
GuessInputs ==
  {Null, Str(<<"0">>), Str(<<"0", "0", "0">>), Str(<<"9", "a">>),
   Str(<<"9", "9">>),
   Str(<<"0", "0">>), Str(<<"0", "1">>), Str(<<"0", "2">>), Str(<<"1", "0">>)}

\* processPlayerGuess(guess); last keeps the guess and, as out, 1 for true
\* and 0 for false
PlayerGuess(inputs) ==
  \E guess \in inputs :
    LET r == ProcessPlayerGuess(gameState, guess)
    IN /\ gameState.cpuShips # <<>>
       /\ Len(gameState.guesses) < MaxGuesses
       /\ gameState' = r.gs
       /\ last' = Call("processPlayerGuess", 0, guess,
                       IF r.out THEN 1 ELSE 0, FALSE)
       /\ UNCHANGED <<impl, validators, schemas, regexes, enigma>>

NextGuess ==
  \/ PlaceOn(FALSE, {gameState.cpuNumShips})
  \/ PlayerGuess(GuessInputs)

SpecGuess == InitGuess /\ [][NextGuess]_vars

(* The Enigma machine: a message is processed by one machine and the     *)
(* output by another machine built with the same settings.  enigma keeps   *)
(* the settings and the texts: the message, the output, the output of the  *)
(* second machine.                                                         *)

\* rotor positions and ring settings of the prompt, at and off the notches
RotorPositions == {0, 4, 21}
RingSettings == {0, 1}

\* plugboard pairs of the prompt: none, disjoint pairs, pairs that share a
\* letter
PlugboardPairs ==
  {<<>>, <<<<"A", "B">>>>, <<<<"A", "B">>, <<"C", "D">>>>,
   <<<<"A", "B">>, <<"B", "C">>>>}

\* the characters of a message
MessageChars == {"A", "B", "C", "Q", "h", "!"}

Messages == SeqsUpTo(MessageChars, MaxLen)

InitEnigma ==
  /\ impl = "schema"
  /\ validators = <<>>
  /\ schemas = <<>>
  /\ regexes = <<>>
  /\ last = Call("start", 0, 0, 0, FALSE)
  /\ gameState = Reset
  /\ \E rotorPositions \in RotorPositions \X RotorPositions \X RotorPositions,
        ringSettings \in RingSettings \X RingSettings \X RingSettings,
        plugboardPairs \in PlugboardPairs :
       enigma = [rotorPositions |-> rotorPositions,
                 ringSettings |-> ringSettings,
                 plugboardPairs |-> plugboardPairs,
                 texts |-> <<>>]

\* new Enigma([0, 1, 2], rotorPositions, ringSettings, plugPairs)
\*   .process(text)
ProcessOn(text) ==
  Process(NewEnigma(<<0, 1, 2>>, enigma.rotorPositions, enigma.ringSettings,
                    enigma.plugboardPairs),
          text)

\* a message is processed
ProcessMessage(messages) ==
  \E message \in messages :
    /\ enigma.texts = <<>>
    /\ enigma' = [enigma EXCEPT !.texts = <<message, ProcessOn(message)>>]
    /\ last' = Call("process", 0, 0, 0, FALSE)
    /\ UNCHANGED <<impl, validators, schemas, regexes, gameState>>

\* the output is processed by a machine with the same settings
ProcessOutput ==
  /\ Len(enigma.texts) = 2
  /\ enigma' = [enigma EXCEPT !.texts = Append(@, ProcessOn(@[2]))]
  /\ last' = Call("process", 0, 0, 0, FALSE)
  /\ UNCHANGED <<impl, validators, schemas, regexes, gameState>>

NextEnigma ==
  \/ ProcessMessage(Messages)
  \/ ProcessOutput

SpecEnigma == InitEnigma /\ [][NextEnigma]_vars

-----------------------------------------------------------------------------
(* Properties *)

\* v.validate(x) in the current state
Run(id, x) == Validate(impl, validators, schemas, regexes, id, x)

ConfigOps ==
  {"minLength", "maxLength", "pattern", "min", "max", "withMessage", "optional"}

C2_OptionalAcceptsAbsent ==
  last.op = "optional" =>
    \A x \in {Undef, Null} :
      Run(last.out, x) = [result |-> Ok(Undef), rs |-> regexes]

\* string().minLength(2), which rejects undefined and null, made optional
C2_Witness ==
  /\ last.op = "optional"
  /\ validators[last.recv].kind = "string"
  /\ validators[last.recv].rules = <<Rule("minLength", 2, Undef)>>
  /\ Run(last.recv, Undef).result = Fail(Text("Value must be a string"))
  /\ Run(last.recv, Null).result = Fail(Text("Value must be a string"))
  /\ Run(last.out, Undef).result = Ok(Undef)
  /\ Run(last.out, Null).result = Ok(Undef)

\* C3: on a present input V.optional().validate(x) returns what
\* V.validate(x) returns: type check, rules and the element or field pass
C3_OptionalSameOnPresent ==
  last.op = "optional" =>
    \A x \in TreeInputs :
      ~IsAbsent(x) => Run(last.out, x) = Run(last.recv, x)

\* number().min(1).optional().validate(0) fails with the message of min
C3_Witness ==
  /\ last.op = "optional"
  /\ validators[last.recv].kind = "number"
  /\ validators[last.recv].rules = <<Rule("min", 1, Undef)>>
  /\ Run(last.out, Num(0)).result = Fail(Text("Number must be at least 1"))
  /\ Run(last.out, Num(1)).result = Ok(Num(1))

\* the elements of the array x that the item validator of id fails (1-based)
FailingItems(id, x) ==
  {i \in 1..Len(x.items) :
     ~Run(validators[id].itemValidator, x.items[i]).result.success}

\* the mapping from the failing indices, as strings, to the elements' errors
ItemErrors(id, x) ==
  Obj([k \in {ToString(i - 1) : i \in FailingItems(id, x)} |->
         LET i == CHOOSE i \in FailingItems(id, x) : ToString(i - 1) = k
         IN Run(validators[id].itemValidator, x.items[i]).result.error])

\* the entries of the schema of id whose validator fails on the field of x
FailingFields(id, x) ==
  LET schema == schemas[validators[id].schema]
  IN {j \in 1..Len(schema) :
        ~Run(schema[j].validator, Get(x, schema[j].key)).result.success}

\* the mapping from the failing field names to the fields' errors
FieldErrors(id, x) ==
  LET schema == schemas[validators[id].schema]
  IN Obj([k \in {schema[j].key : j \in FailingFields(id, x)} |->
            LET j == CHOOSE j \in FailingFields(id, x) : schema[j].key = k
            IN Run(schema[j].validator, Get(x, k)).result.error])

\* x passes the type check and the rules of id
PassesBase(id, x) ==
  BaseValidate(impl, validators[id], x, regexes).result.success

\* C4: when an array passes the type check and the length rules and some
\* elements fail the item validator, validate fails and its error is the
\* mapping from exactly the failing indices to the elements' own errors
C4_ArrayErrorIsIndexMapping ==
  \A id \in OfKind("array"), x \in TreeInputs :
    (~IsAbsent(x) /\ PassesBase(id, x) /\ FailingItems(id, x) # {}) =>
      Run(id, x).result = Fail(ItemErrors(id, x))

\* C5: when an object passes the type check and some declared fields fail,
\* validate fails and its error is the mapping from exactly the failing
\* field names to the fields' own errors, every declared field being tried
C5_ObjectErrorIsFieldMapping ==
  \A id \in OfKind("object"), x \in TreeInputs :
    (~IsAbsent(x) /\ PassesBase(id, x) /\ FailingFields(id, x) # {}) =>
      Run(id, x).result = Fail(FieldErrors(id, x))

\* C6: on a date validator with one bound, the call that sets the other
\* bound throws, and returns no validator, exactly when the minimum is
\* later than the maximum
C6_InvertedDateRangeThrows ==
  (/\ last.op \in {"min", "max"}
   /\ validators[last.recv].kind = "date"
   /\ Len(validators[last.recv].rules) = 1) =>
    LET first == validators[last.recv].rules[1]
    IN /\ (last.op = "max" /\ first.r = "dateMin") =>
            (last.threw <=> first.n > last.arg)
       /\ (last.op = "min" /\ first.r = "dateMax") =>
            (last.threw <=> last.arg > first.n)
       /\ last.threw => last.out = 0

\* C7: the message of withMessage replaces the type-check message only: a
\* type-check failure returns it, an input that passes the type check gets
\* the result it got without the message, and a failure of elements or
\* fields is still the mapping of their errors
C7_WithMessageReplacesTypeErrorOnly ==
  last.op = "withMessage" =>
    \A x \in TreeInputs :
      LET v == validators[last.out]
          r == Run(last.out, x).result
      IN /\ ~ValidateType(impl, v, x).success => r = Fail(v.baseErrorMessage)
         /\ ValidateType(impl, v, x).success => r = Run(last.recv, x).result
         /\ (v.kind = "array" /\ PassesBase(last.out, x)
               /\ FailingItems(last.out, x) # {}) =>
              r = Fail(ItemErrors(last.out, x))
         /\ (v.kind = "object" /\ PassesBase(last.out, x)
               /\ FailingFields(last.out, x) # {}) =>
              r = Fail(FieldErrors(last.out, x))

\* C8: validating the data of a successful validate again, on the same
\* validator, succeeds with equal data
C8_RevalidationIsStable ==
  \A id \in Ids, x \in LeafInputs :
    LET first == Run(id, x)
    IN first.result.success =>
         LET second == Validate(impl, validators, schemas, first.rs, id,
                                first.result.data)
         IN second.result.success /\ second.result.data = first.result.data

\* C9: a validate call leaves the result of every later validate call, on
\* every validator and input, as it was
C9_ValidateKeepsNoState ==
  [][last'.op = "validate" =>
       \A id \in Ids, x \in LeafInputs :
         Validate(impl, validators', schemas', regexes', id, x).result
           = Validate(impl, validators, schemas, regexes, id, x).result]_vars

\* C10: changing the map object that was passed to object(schema) leaves
\* the result of validate on every validator as it was
C10_SchemaFixedAtConstruction ==
  [][last'.op = "mutate" =>
       \A id \in Ids, x \in MapInputs :
         Validate(impl, validators', schemas', regexes', id, x).result
           = Validate(impl, validators, schemas, regexes, id, x).result]_vars

\* the validators of a tree never change once built, so a property of
\* validate that holds of each validator when a call returns it holds of it
\* ever after

\* C11: every result of validate is a success with data and no error, or
\* a failure with a defined error and no data, whether the failure comes
\* from the type check, from a rule or from the elements or fields
C11_ResultIsSuccessOrFailure ==
  last.out # 0 =>
    \A x \in TreeInputs :
      LET r == Run(last.out, x).result
      IN IF r.success
         THEN DOMAIN r = {"success", "data"}
         ELSE DOMAIN r = {"success", "error"} /\ r.error # Undef

\* array(number().min(1)): a type failure, a rule failure and a failure of
\* an element, and a success
C11_Witness ==
  \E a \in OfKind("array") :
    LET item == validators[a].itemValidator
    IN /\ validators[item].kind = "number"
       /\ validators[item].rules = <<Rule("min", 1, Undef)>>
       /\ Run(item, Str(<<"a">>)).result = Fail(Text("Value must be a valid number"))
       /\ Run(item, Num(0)).result = Fail(Text("Number must be at least 1"))
       /\ ~Run(a, Arr(<<Num(0)>>)).result.success
       /\ Run(a, Arr(<<Num(MaxNum)>>)).result = Ok(Arr(<<Num(MaxNum)>>))

\* the keys the schema of the object validator id declares
SchemaKeys(id) ==
  LET schema == schemas[validators[id].schema]
  IN {schema[j].key : j \in 1..Len(schema)}

\* the plain object x without the keys outside keys
Restrict(x, keys) ==
  IF "fields" \in DOMAIN x
  THEN Obj([k \in (DOMAIN x.fields) \cap keys |-> x.fields[k]])
  ELSE x

C13_UndefinedFieldsAreOmitted ==
  last.out \in OfKind("object") =>
    \A x \in TreeInputs :
      LET id == last.out
          r == Run(id, x).result
          schema == schemas[validators[id].schema]
      IN (IsA(x, "Object") /\ r.success) =>
           DOMAIN r.data.fields =
             {schema[j].key : j \in
                {j \in 1..Len(schema) :
                   Run(schema[j].validator, Get(x, schema[j].key)).result.data
                     # Undef}}

\* object({age: number().optional()}) on {}, {age: undefined}, {age: null}
\* and {age: 0}
C13_Witness ==
  \E id \in OfKind("object") :
    /\ SchemaKeys(id) = {"age"}
    /\ validators[schemas[validators[id].schema][1].validator].kind = "number"
    /\ Run(id, Obj(EmptyFields)).result = Ok(Obj(EmptyFields))
    /\ Run(id, Obj(Put(EmptyFields, "age", Undef))).result = Ok(Obj(EmptyFields))
    /\ Run(id, Obj(Put(EmptyFields, "age", Null))).result = Ok(Obj(EmptyFields))
    /\ Run(id, Obj(Put(EmptyFields, "age", Num(0)))).result
         = Ok(Obj(Put(EmptyFields, "age", Num(0))))

\* the finite numbers among the inputs
FiniteNumbers == {Num(n) : n \in -1..(MaxNum + 1)}

\* the inputs of the number type check: every input of the leaf validators,
\* -Infinity, a numeric string, an array and a plain object
NumberInputs ==
  LeafInputs \cup {NegInfinity, Str(<<"1">>), Arr(<<>>), Arr(<<Num(1)>>),
                   Obj(EmptyFields)}

Reported(message, default) == IF message = Undef THEN Text(default) ELSE message

\* C15: number bounds are inclusive: with one min(a) and one max(b),
\* a <= b, validate(n) returns n exactly when a <= n <= b, fails with
\* 'Number must be at least a' below a and with 'Number must be at most b'
\* above b, or with the message given to that call
C15_NumberBoundsAreInclusive ==
  \A id \in OfKind("number"), x \in FiniteNumbers :
    LET rules == validators[id].rules
    IN (/\ Len(rules) = 2
        /\ {rules[1].r, rules[2].r} = {"min", "max"}) =>
         LET lo == IF rules[1].r = "min" THEN rules[1] ELSE rules[2]
             hi == IF rules[1].r = "max" THEN rules[1] ELSE rules[2]
         IN lo.n <= hi.n =>
              Run(id, x).result =
                IF x.n < lo.n
                THEN Fail(Reported(lo.message,
                                   "Number must be at least " \o ToString(lo.n)))
                ELSE IF x.n > hi.n
                THEN Fail(Reported(hi.message,
                                   "Number must be at most " \o ToString(hi.n)))
                ELSE Ok(x)

\* number().min(1).max(1): 1 alone is accepted
C15_Witness ==
  /\ last.op = "max"
  /\ last.out # 0
  /\ validators[last.out].rules = <<Rule("min", 1, Undef), Rule("max", 1, Undef)>>
  /\ Run(last.out, Num(1)).result = Ok(Num(1))
  /\ Run(last.out, Num(0)).result = Fail(Text("Number must be at least 1"))
  /\ Run(last.out, Num(2)).result = Fail(Text("Number must be at most 1"))

\* C16: with one minLength(a) and one maxLength(b), a <= b, validate(s)
\* on a string returns s exactly when a <= length(s) <= b, fails with
\* 'String must be at least a characters long' on a shorter string and
\* with 'String must be at most b characters long' on a longer one, or
\* with the message given to that call
C16_StringLengthBounds ==
  \A id \in OfKind("string"), x \in Strings :
    LET rules == validators[id].rules
    IN (/\ Len(rules) = 2
        /\ {rules[1].r, rules[2].r} = {"minLength", "maxLength"}) =>
         LET lo == IF rules[1].r = "minLength" THEN rules[1] ELSE rules[2]
             hi == IF rules[1].r = "maxLength" THEN rules[1] ELSE rules[2]
         IN lo.n <= hi.n =>
              Run(id, x).result =
                IF Len(x.chars) < lo.n
                THEN Fail(Reported(lo.message,
                            "String must be at least " \o ToString(lo.n)
                              \o " characters long"))
                ELSE IF Len(x.chars) > hi.n
                THEN Fail(Reported(hi.message,
                            "String must be at most " \o ToString(hi.n)
                              \o " characters long"))
                ELSE Ok(x)

\* string().minLength(1, 'custom rule message').maxLength(MaxLen)
C16_Witness ==
  /\ last.op = "maxLength"
  /\ validators[last.out].rules =
       <<Rule("minLength", 1, Text("custom rule message")),
         Rule("maxLength", MaxLen, Undef)>>
  /\ Run(last.out, Str(<<>>)).result = Fail(Text("custom rule message"))
  /\ Run(last.out, Str(<<"b">>)).result = Ok(Str(<<"b">>))
  /\ Run(last.out, Str(Letters(MaxLen))).result = Ok(Str(Letters(MaxLen)))
  /\ Run(last.out, Str(Letters(MaxLen + 1))).result =
       Fail(Text("String must be at most " \o ToString(MaxLen)
                   \o " characters long"))

\* the inputs of the date type check: every input of the leaf validators,
\* an array and a plain object
DateInputs == LeafInputs \cup {Arr(<<>>), Obj(EmptyFields)}

\* C17: a date validator rejects every input that is neither a valid Date
\* nor a string that parses to one with the same error, 'Value must be a
\* valid date' or the message of withMessage, and no data; on a string
\* that parses the type check returns a Date
C17_DateTypeErrorIsUniform ==
  \A id \in OfKind("date"), x \in DateInputs :
    LET v == validators[id]
        r == Run(id, x).result
    IN /\ (x \in DateStrings) =>
            LET typed == ValidateType(impl, v, x)
            IN typed.success /\ IsValidDate(typed.data)
       /\ (~IsValidDate(x) /\ x \notin DateStrings
             /\ ~(v.wrapped /\ IsAbsent(x))) =>
            r = Fail(IF v.baseErrorMessage \in {Undef, Text("")}
                     THEN Text("Value must be a valid date")
                     ELSE v.baseErrorMessage)

\* the numbers and the valid Date objects among the inputs
BoundedInputs == FiniteNumbers \cup {DateV(ts) : ts \in Timestamps}

\* the number, or the time value, of a typed value
Magnitude(x) == IF "n" \in DOMAIN x THEN x.n ELSE x.ts

\* the positions in rules of the rules made by the methods in methods
RulesOf(rules, methods) == {i \in 1..Len(rules) : rules[i].r \in methods}

Last(S) == CHOOSE i \in S : \A j \in S : j <= i

\* C18: on a number or date validator built with min and max calls only,
\* the last min call and the last max call win: validate succeeds exactly
\* when the value is within the bounds those calls gave, and a number below
\* the last minimum, or above the last maximum, is reported with that bound
C18_LastBoundWins ==
  \A id \in OfKind("number") \cup OfKind("date"), x \in BoundedInputs :
    LET rules == validators[id].rules
        mins == RulesOf(rules, {"min", "dateMin"})
        maxs == RulesOf(rules, {"max", "dateMax"})
        r == Run(id, x).result
        below == mins # {} /\ Magnitude(x) < rules[Last(mins)].n
        above == maxs # {} /\ Magnitude(x) > rules[Last(maxs)].n
    IN (/\ ValidateType(impl, validators[id], x) = Ok(x)
        /\ mins \cup maxs = 1..Len(rules)) =>
         /\ r.success <=> (~below /\ ~above)
         /\ (validators[id].kind = "number" /\ below /\ ~above) =>
              r = Fail(Reported(rules[Last(mins)].message,
                         "Number must be at least "
                           \o ToString(rules[Last(mins)].n)))
         /\ (validators[id].kind = "number" /\ above /\ ~below) =>
              r = Fail(Reported(rules[Last(maxs)].message,
                         "Number must be at most "
                           \o ToString(rules[Last(maxs)].n)))

\* C19: withMessage(m) at the end of a chain makes m the error of every
\* failure of the validator it returns, of the type check and of the rules
\* alike
C19_WithMessageOverridesEveryError ==
  (last.op = "withMessage" /\ Truthy(validators[last.out].baseErrorMessage)) =>
    \A x \in LeafInputs :
      LET r == Run(last.out, x).result
      IN ~r.success => r.error = validators[last.out].baseErrorMessage

\* the locations inside the board
BoardLocations == {LocStr(row, col) : row \in Rows, col \in Rows}

\* C20: every cpuTurn, in hunt mode or in target mode, appends exactly one
\* location to cpuGuesses, inside the board and not guessed before; so
\* cpuGuesses never holds a location twice
C20_CpuGuessIsNew ==
  /\ [][last'.op = "cpuTurn" =>
          LET old == gameState.cpuGuesses
              new == gameState'.cpuGuesses
          IN /\ Len(new) = Len(old) + 1
             /\ SubSeq(new, 1, Len(old)) = old
             /\ new[Len(new)] \in BoardLocations
             /\ ~Includes(old, new[Len(new)])]_vars
  /\ [](\A i, j \in 1..Len(gameState.cpuGuesses) :
          gameState.cpuGuesses[i] = gameState.cpuGuesses[j] => i = j)

\* a turn in hunt mode hit a ship, the next turn took its guess from the
\* target queue and the queue still holds a location
C20_Witness ==
  /\ last.op = "cpuTurn"
  /\ Len(gameState.cpuGuesses) = 2
  /\ IsHit(gameState.playerShips[1], gameState.cpuGuesses[1])
  /\ gameState.cpuGuesses[2] \in
       {LocStr(ParseInt(gameState.cpuGuesses[1][1]) + d[1],
               ParseInt(gameState.cpuGuesses[1][2]) + d[2]) :
          d \in {<<-1, 0>>, <<1, 0>>, <<0, -1>>, <<0, 1>>}}
  /\ gameState.cpuMode = "target"
  /\ Len(gameState.cpuTargetQueue) > 0

\* the cells of a ship, from its locations
CellsOf(ship) ==
  [i \in 1..Len(ship.locations) |->
     <<ParseInt(ship.locations[i][1]), ParseInt(ship.locations[i][2])>>]

\* the cells lie one after the other in one row or in one column
Consecutive(cells) ==
  \/ \A i \in 1..Len(cells) :
       cells[i][1] = cells[1][1] /\ cells[i][2] = cells[1][2] + i - 1
  \/ \A i \in 1..Len(cells) :
       cells[i][2] = cells[1][2] /\ cells[i][1] = cells[1][1] + i - 1

\* the ships from position from on are n ships of ShipLength consecutive
\* cells inside the board, no two sharing a cell
WellPlaced(ships, from, n) ==
  /\ Len(ships) = from + n
  /\ \A i \in (from + 1)..Len(ships) :
       /\ Len(ships[i].locations) = ShipLength
       /\ Len(ships[i].hits) = ShipLength
       /\ Consecutive(CellsOf(ships[i]))
       /\ \A k \in 1..ShipLength : CellsOf(ships[i])[k] \in Rows \X Rows
       /\ \A j \in (from + 1)..Len(ships) :
            i # j => \A k, l \in 1..ShipLength :
                       ships[i].locations[k] # ships[j].locations[l]

Unaccepted(gs, guess) ==
  \/ guess = Null
  \/ Len(guess.chars) # 2
  \/ ~\E row \in Rows, col \in Rows : guess.chars = LocStr(row, col)
  \/ \E i \in 1..Len(gs.guesses) : gs.guesses[i] = guess.chars

\* C22: processPlayerGuess returns false and leaves the guesses, both
\* boards, the hits of every ship and both counters as they were when the
\* guess is null, is not exactly two characters, is not two digits that
\* address a cell of the board, or is already among the guesses.
C22_RejectedGuessChangesNothing ==
  [][(last'.op = "processPlayerGuess" /\ Unaccepted(gameState, last'.arg))
       => /\ last'.out = 0
          /\ gameState'.guesses = gameState.guesses
          /\ gameState'.opponentBoard = gameState.opponentBoard
          /\ gameState'.playerBoard = gameState.playerBoard
          /\ gameState'.cpuShips = gameState.cpuShips
          /\ gameState'.playerShips = gameState.playerShips
          /\ gameState'.cpuNumShips = gameState.cpuNumShips
          /\ gameState'.playerNumShips = gameState.playerNumShips]_vars

\* a guess that hit a ship was made again and was rejected
C22_Witness ==
  /\ last.op = "processPlayerGuess"
  /\ last.out = 0
  /\ last.arg # Null
  /\ Includes(gameState.guesses, last.arg.chars)
  /\ \E i \in 1..Len(gameState.cpuShips) :
       IsAlreadyHit(gameState.cpuShips[i], last.arg.chars)


\* the ships of the CPU that are hit in every cell
FullyHit(gs) ==
  {i \in 1..Len(gs.cpuShips) :
     \A j \in 1..Len(gs.cpuShips[i].locations) :
       gs.cpuShips[i].hits[j] = "hit"}

\* C23: after any sequence of processPlayerGuess calls on CPU ships that
\* share no cell, cpuNumShips is the number of ships placed less the ships
\* hit in every cell, and it goes down by one only in an accepted guess
\* that hits the last unhit cell of a ship.
C23_SunkShipsAreCountedOnce ==
  /\ [](gameState.cpuShips # <<>>
          => gameState.cpuNumShips
               = Len(gameState.cpuShips) - Cardinality(FullyHit(gameState)))
  /\ [][gameState'.cpuNumShips # gameState.cpuNumShips
          => /\ last'.op = "processPlayerGuess"
             /\ last'.out = 1
             /\ gameState'.cpuNumShips = gameState.cpuNumShips - 1
             /\ \E i \in FullyHit(gameState') \ FullyHit(gameState) :
                  /\ IsHit(gameState.cpuShips[i], last'.arg.chars)
                  /\ FullyHit(gameState') = FullyHit(gameState) \cup {i}]_vars

\* one ship is sunk and counted, another is hit and not sunk
C23_Witness ==
  /\ last.op = "processPlayerGuess"
  /\ Len(gameState.cpuShips) = MaxShips
  /\ gameState.cpuNumShips = MaxShips - 1
  /\ \E i \in FullyHit(gameState) :
       \E k \in 1..Len(gameState.cpuShips) :
         /\ k \notin FullyHit(gameState)
         /\ \E j \in 1..ShipLength : gameState.cpuShips[k].hits[j] = "hit"


\* text.toUpperCase()
UpperCase(text) == [i \in 1..Len(text) |-> ToUpperCase(text[i])]

\* C24: for any rotor positions, ring settings and list of plugboard pairs,
\* processing a message and then processing the output with a machine built
\* with the same settings returns the message in upper case.
C24_DecryptionRestoresMessage ==
  Len(enigma.texts) = 3 => enigma.texts[3] = UpperCase(enigma.texts[1])

\* the plugboard pairs share no letter
DisjointPairs(pairs) ==
  \A i, j \in 1..Len(pairs) :
    /\ pairs[i][1] # pairs[i][2]
    /\ i # j => {pairs[i][1], pairs[i][2]} \cap {pairs[j][1], pairs[j][2]} = {}

\* the same, for plugboard pairs that share no letter
C24_DisjointPairsRestoreMessage ==
  (Len(enigma.texts) = 3 /\ DisjointPairs(enigma.plugboardPairs))
    => enigma.texts[3] = UpperCase(enigma.texts[1])


\* C25: a validator made from an optional validator by a further
\* configuration call (withMessage, minLength, maxLength, pattern, min,
\* max) still returns success with no data for undefined and for null.
C25_OptionalSurvivesConfiguration ==
  (/\ last.op \in ConfigOps \ {"optional"}
   /\ ~last.threw
   /\ Run(last.recv, Undef).result = Ok(Undef)
   /\ Run(last.recv, Null).result = Ok(Undef))
    => /\ Run(last.out, Undef).result = Ok(Undef)
       /\ Run(last.out, Null).result = Ok(Undef)


\* the rules of id, by position, that fail on the typed value v
FailingRules(id, v) ==
  {i \in 1..Len(validators[id].rules) :
     ~RunRule(impl, validators[id].rules[i], v, regexes).res.success}

\* validate of id on x evaluated no rule attached after rule i: the RegExp
\* objects of the later pattern rules are as they were
LaterRulesNotEvaluated(id, x, i) ==
  \A j \in (i + 1)..Len(validators[id].rules) :
    validators[id].rules[j].r = "pattern"
      => Run(id, x).rs[validators[id].rules[j].n]
           = regexes[validators[id].rules[j].n]

C27_ChildErrorUnderChildKey ==
  /\ \A id \in OfKind("array"), x \in TreeInputs :
       (~IsAbsent(x) /\ PassesBase(id, x)) =>
         \A i \in FailingItems(id, x) :
           Get(Run(id, x).result.error, ToString(i - 1))
             = Run(validators[id].itemValidator, x.items[i]).result.error
  /\ \A id \in OfKind("object"), x \in TreeInputs :
       (~IsAbsent(x) /\ PassesBase(id, x)) =>
         \A j \in FailingFields(id, x) :
           LET schema == schemas[validators[id].schema]
           IN Get(Run(id, x).result.error, schema[j].key)
                = Run(schema[j].validator, Get(x, schema[j].key)).result.error


\* x is of the type that validators of this kind accept
HasType(kind, x) ==
  CASE kind = "string" -> x.t = "string"
    [] kind = "number" -> x.t = "number" /\ "n" \in DOMAIN x
    [] kind = "boolean" -> x.t = "boolean"
    [] kind = "date" ->
         \/ IsValidDate(x)
         \/ x.t = "string" /\ IsValidDate(ParseDate(x))
    [] kind = "array" -> IsA(x, "Array")
    [] kind = "object" -> x.t = "object" /\ x # Null /\ ~IsA(x, "Array")

\* the message of a failed type check of the validator v
TypeError(v) ==
  IF Truthy(v.baseErrorMessage) THEN v.baseErrorMessage
  ELSE CASE v.kind = "string" -> Text("Value must be a string")
         [] v.kind = "number" -> Text("Value must be a valid number")
         [] v.kind = "boolean" -> Text("Value must be a boolean")
         [] v.kind = "date" ->
              IF impl = "schema" THEN Text("Value must be a valid date")
              ELSE Text("Value must be a valid Date object or an ISO date string")
         [] v.kind = "array" -> Text("Value must be an array")
         [] v.kind = "object" -> Text("Value must be an object")

StruckShips(gs) ==
  {i \in 1..Len(gs.playerShips) :
     \E j \in 1..Len(gs.playerShips[i].locations) :
       gs.playerShips[i].locations[j] = gs.cpuGuesses[Len(gs.cpuGuesses)]}

\* C30: from the reset state on, after every cpuTurn the target queue holds
\* distinct locations inside the board that are not among cpuGuesses, and
\* in mode 'hunt' the queue is empty; a hit that sinks a ship leaves the
\* mode 'hunt' and the queue empty, a hit that does not sink leaves the
\* mode 'target'.
C30_CpuModeAndTargetQueue ==
  /\ [](LET queue == gameState.cpuTargetQueue
        IN /\ \A i, j \in 1..Len(queue) : queue[i] = queue[j] => i = j
           /\ \A i \in 1..Len(queue) :
                /\ queue[i] \in BoardLocations
                /\ \A k \in 1..Len(gameState.cpuGuesses) :
                     gameState.cpuGuesses[k] # queue[i]
           /\ gameState.cpuMode \in {"hunt", "target"}
           /\ gameState.cpuMode = "hunt" => queue = <<>>)
  /\ [][last'.op = "cpuTurn" =>
          \A i \in StruckShips(gameState') :
            IF \A j \in 1..Len(gameState'.playerShips[i].hits) :
                 gameState'.playerShips[i].hits[j] = "hit"
            THEN /\ gameState'.cpuMode = "hunt"
                 /\ gameState'.cpuTargetQueue = <<>>
            ELSE gameState'.cpuMode = "target"]_vars

\* the third turn sank the ship: two hits before it left the mode 'target'
\* and a queue, the third leaves 'hunt' and no queue
C30_Witness ==
  /\ last.op = "cpuTurn"
  /\ Len(gameState.cpuGuesses) = ShipLength
  /\ gameState.playerNumShips = NumShips - 1
  /\ StruckShips(gameState) # {}
  /\ gameState.cpuMode = "hunt"
  /\ gameState.cpuTargetQueue = <<>>

====
